---------------------------- MODULE Spec2Model ----------------------------
(***************************************************************************)
(* A model of src/monitor.py, the SAR ticket availability monitor.         *)
(*                                                                         *)
(* Python strings are modelled as sequences of Unicode code points, so     *)
(* that str.lower(), the `in` substring test, "&".join(...), slicing and   *)
(* strptime/strftime are computed as the code computes them.  A dict is a  *)
(* record; a key the code leaves out is a field the record does not have.  *)
(* None is the record [none |-> TRUE].                                     *)
(*                                                                         *)
(* Four specifications share the module:                                   *)
(*   Spec       main(): the two scan loops, the pacing wait, the browser   *)
(*              shutdown and send_email with its two SMTP attempts;        *)
(*   SpecCheck  one call of check_availability on a rendered page;         *)
(*   SpecDates  one call of generate_dates on a scan window;               *)
(*   SpecUrl    two calls of build_search_url on two (route, date) inputs. *)
(***************************************************************************)
EXTENDS Integers, Sequences, FiniteSets

VARIABLES
    \* ---- main() ----
    config,           \* CONFIG: the two scan windows of the run
    env,              \* os.environ: are the mail credentials configured
    pc,               \* position of main()
    window,           \* which loop is running: "outbound" or "return"
    dates,            \* outbound_dates / return_dates of the running loop
    idx,              \* 1-based position of the for loop in dates
    available_trips,  \* the list main() collects
    browser,          \* "none", "open", "closed"
    events,           \* history: page.goto and pacing waits, in order
    probes,           \* history: one entry per check_availability call
    send_calls,       \* history: the arguments send_email was called with
    smtp,             \* history: outcome of each SMTP attempt
    delivered,        \* history: messages accepted by the mail server
    printed,          \* history: result lists printed to the console
    \* ---- one call of check_availability ----
    ca_page, ca_result, ca_done,
    \* ---- one call of generate_dates ----
    gd_window, gd_result, gd_done,
    \* ---- two calls of build_search_url ----
    bu_args, bu_urls, bu_done

vars == <<config, env, pc, window, dates, idx, available_trips, browser,
          events, probes, send_calls, smtp, delivered, printed,
          ca_page, ca_result, ca_done, gd_window, gd_result, gd_done,
          bu_args, bu_urls, bu_done>>

mainVars == <<config, env, pc, window, dates, idx, available_trips, browser,
              events, probes, send_calls, smtp, delivered, printed>>
checkVars == <<ca_page, ca_result, ca_done>>
datesVars == <<gd_window, gd_result, gd_done>>
urlVars == <<bu_args, bu_urls, bu_done>>

-----------------------------------------------------------------------------
(* String literals of the source, as code points.                          *)
\* "https://tickets.sar.com.sa/select-trip"
base_url == <<104, 116, 116, 112, 115, 58, 47, 47, 116, 105, 99, 107, 101,
    116, 115, 46, 115, 97, 114, 46, 99, 111, 109, 46, 115, 97, 47, 115, 101,
    108, 101, 99, 116, 45, 116, 114, 105, 112>>
\* "DepartureStation"
K_DepartureStation == <<68, 101, 112, 97, 114, 116, 117, 114, 101, 83, 116,
    97, 116, 105, 111, 110>>
\* "ArrivalStation"
K_ArrivalStation == <<65, 114, 114, 105, 118, 97, 108, 83, 116, 97, 116, 105,
    111, 110>>
\* "DepartureDateString"
K_DepartureDateString == <<68, 101, 112, 97, 114, 116, 117, 114, 101, 68, 97,
    116, 101, 83, 116, 114, 105, 110, 103>>
\* "AdultCount"
K_AdultCount == <<65, 100, 117, 108, 116, 67, 111, 117, 110, 116>>
\* "ChildCount"
K_ChildCount == <<67, 104, 105, 108, 100, 67, 111, 117, 110, 116>>
\* "InfantCount"
K_InfantCount == <<73, 110, 102, 97, 110, 116, 67, 111, 117, 110, 116>>
\* "DisabledCount"
K_DisabledCount == <<68, 105, 115, 97, 98, 108, 101, 100, 67, 111, 117, 110,
    116>>
\* "CarerCount"
K_CarerCount == <<67, 97, 114, 101, 114, 67, 111, 117, 110, 116>>
\* "passengersCount"
K_passengersCount == <<112, 97, 115, 115, 101, 110, 103, 101, 114, 115, 67,
    111, 117, 110, 116>>
\* "Lang"
K_Lang == <<76, 97, 110, 103>>
\* "serviceType"
K_serviceType == <<115, 101, 114, 118, 105, 99, 101, 84, 121, 112, 101>>
\* "WithCarCargo"
K_WithCarCargo == <<87, 105, 116, 104, 67, 97, 114, 67, 97, 114, 103, 111>>
\* "TripDirection"
K_TripDirection == <<84, 114, 105, 112, 68, 105, 114, 101, 99, 116, 105, 111,
    110>>
\* "1"
V_1 == <<49>>
\* "0"
V_0 == <<48>>
\* "en"
V_en == <<101, 110>>
\* "false"
V_false == <<102, 97, 108, 115, 101>>
\* "RIY"
S_RIY == <<82, 73, 89>>
\* "QUR"
S_QUR == <<81, 85, 82>>
\* "Riyadh"
S_Riyadh == <<82, 105, 121, 97, 100, 104>>
\* "Qurayyat"
S_Qurayyat == <<81, 117, 114, 97, 121, 121, 97, 116>>
\* "N"
S_N == <<78>>
\* " \u2192 "
S_arrow == <<32, 8594, 32>>
\* "no trips available"
I_no_trips_available == <<110, 111, 32, 116, 114, 105, 112, 115, 32, 97, 118,
    97, 105, 108, 97, 98, 108, 101>>
\* "no trains available"
I_no_trains_available == <<110, 111, 32, 116, 114, 97, 105, 110, 115, 32, 97,
    118, 97, 105, 108, 97, 98, 108, 101>>
\* "no results"
I_no_results == <<110, 111, 32, 114, 101, 115, 117, 108, 116, 115>>
\* "\u0644\u0627 \u062a\u0648\u062c\u062f \u0631\u062d\u0644\u0627\u062a"
I_ar_no_trips == <<1604, 1575, 32, 1578, 1608, 1580, 1583, 32, 1585, 1581,
    1604, 1575, 1578>>
\* "\u063a\u064a\u0631 \u0645\u062a\u0648\u0641\u0631"
I_ar_not_available == <<1594, 1610, 1585, 32, 1605, 1578, 1608, 1601, 1585>>
\* "sold out"
I_sold_out == <<115, 111, 108, 100, 32, 111, 117, 116>>
\* "no seats available"
I_no_seats_available == <<110, 111, 32, 115, 101, 97, 116, 115, 32, 97, 118,
    97, 105, 108, 97, 98, 108, 101>>
\* "trip-card"
C_trip_card == <<116, 114, 105, 112, 45, 99, 97, 114, 100>>
\* "journey-card"
C_journey_card == <<106, 111, 117, 114, 110, 101, 121, 45, 99, 97, 114, 100>>
\* "train-result"
C_train_result == <<116, 114, 97, 105, 110, 45, 114, 101, 115, 117, 108, 116>>
\* "available-trip"
C_available_trip == <<97, 118, 97, 105, 108, 97, 98, 108, 101, 45, 116, 114,
    105, 112>>
\* "sar-price"
C_sar_price == <<115, 97, 114, 45, 112, 114, 105, 99, 101>>
\* "trip"
W_trip == <<116, 114, 105, 112>>
\* "journey"
W_journey == <<106, 111, 117, 114, 110, 101, 121>>
\* "price"
W_price == <<112, 114, 105, 99, 101>>
\* "fare"
W_fare == <<102, 97, 114, 101>>
\* "Book"
W_Book == <<66, 111, 111, 107>>
\* "\u0627\u062d\u062c\u0632"
W_ar_book == <<1575, 1581, 1580, 1586>>
\* "Book buttons found - tickets likely available"
D_book == <<66, 111, 111, 107, 32, 98, 117, 116, 116, 111, 110, 115, 32, 102,
    111, 117, 110, 100, 32, 45, 32, 116, 105, 99, 107, 101, 116, 115, 32, 108,
    105, 107, 101, 108, 121, 32, 97, 118, 97, 105, 108, 97, 98, 108, 101>>
\* "Price elements found - tickets likely available"
D_price == <<80, 114, 105, 99, 101, 32, 101, 108, 101, 109, 101, 110, 116,
    115, 32, 102, 111, 117, 110, 100, 32, 45, 32, 116, 105, 99, 107, 101, 116,
    115, 32, 108, 105, 107, 101, 108, 121, 32, 97, 118, 97, 105, 108, 97, 98,
    108, 101>>
\* "2025-03-03"
D_2025_03_03 == <<50, 48, 50, 53, 45, 48, 51, 45, 48, 51>>
\* "2025-03-20"
D_2025_03_20 == <<50, 48, 50, 53, 45, 48, 51, 45, 50, 48>>
\* "2025-03-23"
D_2025_03_23 == <<50, 48, 50, 53, 45, 48, 51, 45, 50, 51>>
\* "2025-04-02"
D_2025_04_02 == <<50, 48, 50, 53, 45, 48, 52, 45, 48, 50>>

-----------------------------------------------------------------------------
(* The other phrases the specification names as "no availability" phrases. *)
\* "no trips found"
P_no_trips_found == <<110, 111, 32, 116, 114, 105, 112, 115, 32, 102, 111,
    117, 110, 100>>
\* "sorry, there are no trips available"
P_sorry == <<115, 111, 114, 114, 121, 44, 32, 116, 104, 101, 114, 101, 32, 97,
    114, 101, 32, 110, 111, 32, 116, 114, 105, 112, 115, 32, 97, 118, 97, 105,
    108, 97, 98, 108, 101>>

-----------------------------------------------------------------------------
(* Strings the inputs are drawn from: station codes, display names, dates, *)
(* element classes and texts, page texts.                                  *)
\* "S"
S_S == <<83>>
\* "journey-info"
C_journey_info == <<106, 111, 117, 114, 110, 101, 121, 45, 105, 110, 102,
    111>>
\* "btn"
C_btn == <<98, 116, 110>>
\* "Train 76 21:00"
T_train76 == <<84, 114, 97, 105, 110, 32, 55, 54, 32, 50, 49, 58, 48, 48>>
\* "120 SAR"
T_fare == <<49, 50, 48, 32, 83, 65, 82>>
\* "BOOK NOW"
T_BOOK_NOW == <<66, 79, 79, 75, 32, 78, 79, 87>>
\* "Journey information"
T_info == <<74, 111, 117, 114, 110, 101, 121, 32, 105, 110, 102, 111, 114,
    109, 97, 116, 105, 111, 110>>
\* "Select your trip"
B_plain == <<83, 101, 108, 101, 99, 116, 32, 121, 111, 117, 114, 32, 116, 114,
    105, 112>>
\* "Sorry, there are No Trips Available"
B_No_Trips_Available == <<83, 111, 114, 114, 121, 44, 32, 116, 104, 101, 114,
    101, 32, 97, 114, 101, 32, 78, 111, 32, 84, 114, 105, 112, 115, 32, 65,
    118, 97, 105, 108, 97, 98, 108, 101>>
\* "No trips found"
B_no_trips_found == <<78, 111, 32, 116, 114, 105, 112, 115, 32, 102, 111, 117,
    110, 100>>
\* "Economy 120 SOLD OUT"
B_SOLD_OUT == <<69, 99, 111, 110, 111, 109, 121, 32, 49, 50, 48, 32, 83, 79,
    76, 68, 32, 79, 85, 84>>
\* "\u0644\u0627 \u062a\u0648\u062c\u062f \u0631\u062d\u0644\u0627\u062a"
B_ar == <<1604, 1575, 32, 1578, 1608, 1580, 1583, 32, 1585, 1581, 1604, 1575,
    1578>>
\* "3 results"
B_results == <<51, 32, 114, 101, 115, 117, 108, 116, 115>>
\* ""
B_empty == <<>>
\* "2025-03-30"
D_2025_03_30 == <<50, 48, 50, 53, 45, 48, 51, 45, 51, 48>>
\* "2025-03-31"
D_2025_03_31 == <<50, 48, 50, 53, 45, 48, 51, 45, 51, 49>>
\* "2025-04-03"
D_2025_04_03 == <<50, 48, 50, 53, 45, 48, 52, 45, 48, 51>>
\* "2025-04-01"
D_2025_04_01 == <<50, 48, 50, 53, 45, 48, 52, 45, 48, 49>>
\* "2025-4-1"
D_2025_4_1 == <<50, 48, 50, 53, 45, 52, 45, 49>>
\* "2024-02-28"
D_2024_02_28 == <<50, 48, 50, 52, 45, 48, 50, 45, 50, 56>>
\* "2024-03-01"
D_2024_03_01 == <<50, 48, 50, 52, 45, 48, 51, 45, 48, 49>>
\* "2025-02-27"
D_2025_02_27 == <<50, 48, 50, 53, 45, 48, 50, 45, 50, 55>>
\* "2025-03-01"
D_2025_03_01 == <<50, 48, 50, 53, 45, 48, 51, 45, 48, 49>>
\* "2025-12-30"
D_2025_12_30 == <<50, 48, 50, 53, 45, 49, 50, 45, 51, 48>>
\* "2026-01-02"
D_2026_01_02 == <<50, 48, 50, 54, 45, 48, 49, 45, 48, 50>>
\* "2026-02-03"
D_2026_02_03 == <<50, 48, 50, 54, 45, 48, 50, 45, 48, 51>>
\* "2026-02-05"
D_2026_02_05 == <<50, 48, 50, 54, 45, 48, 50, 45, 48, 53>>
\* "&ArrivalStation="
X_amp_arrival == <<38, 65, 114, 114, 105, 118, 97, 108, 83, 116, 97, 116, 105,
    111, 110, 61>>
\* "Riyadh Central"
S_Riyadh_Central == <<82, 105, 121, 97, 100, 104, 32, 67, 101, 110, 116, 114,
    97, 108>>
\* "Al Qurayyat"
S_Al_Qurayyat == <<65, 108, 32, 81, 117, 114, 97, 121, 121, 97, 116>>

-----------------------------------------------------------------------------
(* Python string operations.                                               *)

None == [none |-> TRUE]

\* str.lower() on one code point: A-Z to a-z; the Arabic letters and the
\* punctuation used here have no case.
LowerChar(c) == IF c >= 65 /\ c <= 90 THEN c + 32 ELSE c

\* s.lower()
Lower(s) == [i \in 1..Len(s) |-> LowerChar(s[i])]

\* sub in s
Contains(sub, s) ==
    \E i \in 1..(Len(s) - Len(sub) + 1) : SubSeq(s, i, i + Len(sub) - 1) = sub

\* s[:n]
Prefix(s, n) == SubSeq(s, 1, IF Len(s) < n THEN Len(s) ELSE n)

RECURSIVE Join(_, _)
\* sep.join(parts)
Join(sep, parts) ==
    IF parts = <<>> THEN <<>>
    ELSE IF Len(parts) = 1 THEN parts[1]
    ELSE parts[1] \o sep \o Join(sep, Tail(parts))

\* f"{k}={v}"
KeyValue(kv) == kv[1] \o <<61>> \o kv[2]

-----------------------------------------------------------------------------
(* build_search_url                                                        *)

\* the params dict, in insertion order
params(from_station, to_station, date, direction) ==
    << <<K_DepartureStation, from_station>>,
       <<K_ArrivalStation, to_station>>,
       <<K_DepartureDateString, date>>,
       <<K_AdultCount, V_1>>,
       <<K_ChildCount, V_0>>,
       <<K_InfantCount, V_0>>,
       <<K_DisabledCount, V_0>>,
       <<K_CarerCount, V_0>>,
       <<K_passengersCount, V_1>>,
       <<K_Lang, V_en>>,
       <<K_serviceType, V_1>>,
       <<K_WithCarCargo, V_false>>,
       <<K_TripDirection, direction>> >>

build_search_url(from_station, to_station, date, direction) ==
    LET p == params(from_station, to_station, date, direction)
        query == Join(<<38>>, [i \in 1..Len(p) |-> KeyValue(p[i])])
    IN  base_url \o <<63>> \o query

-----------------------------------------------------------------------------
(* datetime: strptime("%Y-%m-%d"), strftime("%Y-%m-%d"), + timedelta(days=1) *)

RECURSIVE ParseInt(_)
\* int() of a run of decimal digits
ParseInt(s) ==
    IF s = <<>> THEN 0
    ELSE ParseInt(SubSeq(s, 1, Len(s) - 1)) * 10 + (s[Len(s)] - 48)

\* position of the first "-" at or after position from
DashAt(s, from) ==
    CHOOSE i \in from..Len(s) :
        s[i] = 45 /\ \A j \in from..(i - 1) : s[j] # 45

\* datetime.strptime(s, "%Y-%m-%d"): the month and day fields are read with
\* or without a leading zero
strptime(s) ==
    LET p1 == DashAt(s, 1)
        p2 == DashAt(s, p1 + 1)
    IN  [year  |-> ParseInt(SubSeq(s, 1, p1 - 1)),
         month |-> ParseInt(SubSeq(s, p1 + 1, p2 - 1)),
         day   |-> ParseInt(SubSeq(s, p2 + 1, Len(s)))]

\* the decimal digits of n, zero-padded on the left to width w
RECURSIVE ZeroPad(_, _)
ZeroPad(n, w) ==
    IF w = 0 THEN <<>> ELSE ZeroPad(n \div 10, w - 1) \o <<48 + (n % 10)>>

\* d.strftime("%Y-%m-%d")
strftime(d) ==
    ZeroPad(d.year, 4) \o <<45>> \o ZeroPad(d.month, 2) \o <<45>>
        \o ZeroPad(d.day, 2)

IsLeap(y) == (y % 4 = 0 /\ y % 100 # 0) \/ y % 400 = 0

DaysInMonth(y, m) ==
    IF m = 2 THEN (IF IsLeap(y) THEN 29 ELSE 28)
    ELSE IF m \in {4, 6, 9, 11} THEN 30 ELSE 31

\* d + timedelta(days=1)
AddDay(d) ==
    IF d.day < DaysInMonth(d.year, d.month)
    THEN [d EXCEPT !.day = d.day + 1]
    ELSE IF d.month < 12
    THEN [year |-> d.year, month |-> d.month + 1, day |-> 1]
    ELSE [year |-> d.year + 1, month |-> 1, day |-> 1]

\* a <= b on datetime values
DateLeq(a, b) ==
    \/ a.year < b.year
    \/ a.year = b.year /\ a.month < b.month
    \/ a.year = b.year /\ a.month = b.month /\ a.day <= b.day

-----------------------------------------------------------------------------
(* generate_dates                                                          *)

\* Mutant: the loop stops one day early (current < end).
WhileCondExclusive(current, end) == DateLeq(current, end) /\ current # end

\* the loop condition: current <= end
WhileCond(current, end) == DateLeq(current, end)

RECURSIVE WhileLoop(_, _, _)
\* the while loop, from the state (current, dates)
WhileLoop(current, end, acc) ==
    IF WhileCond(current, end)
    THEN WhileLoop(AddDay(current), end, Append(acc, strftime(current)))
    ELSE acc

generate_dates(start_date, end_date) ==
    WhileLoop(strptime(start_date), strptime(end_date), <<>>)

-----------------------------------------------------------------------------
(* The rendered page, as check_availability sees it through Playwright.    *)
(*   body    the text page.inner_text("body") returns                      *)
(*   dom     the elements of the page in document order, each              *)
(*           [tag, class, text, inner_text_raises]                         *)
(*   raises  the page operations that raise on this page                   *)

no_availability_indicators ==
    << I_no_trips_available, I_no_trains_available, I_no_results,
       I_ar_no_trips, I_ar_not_available, I_sold_out, I_no_seats_available >>

\* A CSS selector is a set of alternatives (the comma of a selector list).
ByClass(c)         == [kind |-> "class", tag |-> "*", arg |-> c]
ClassContains(w)   == [kind |-> "class*=", tag |-> "*", arg |-> w]
HasText(t, w)      == [kind |-> "has-text", tag |-> t, arg |-> w]

trip_selectors ==
    << {ByClass(C_trip_card)},
       {ByClass(C_journey_card)},
       {ByClass(C_train_result)},
       {ClassContains(W_trip)},
       {ClassContains(W_journey)},
       {ByClass(C_available_trip)} >>

book_selector ==
    {HasText("button", W_Book), HasText("button", W_ar_book), HasText("a", W_Book)}

price_selector ==
    {ClassContains(W_price), ClassContains(W_fare), ByClass(C_sar_price)}

\* does the element match one alternative: .c is the element's class,
\* [class*='w'] a substring of the class attribute, t:has-text('w') a
\* case-insensitive substring of the text of an element with tag t
MatchesSimple(el, s) ==
    CASE s.kind = "class"    -> el.class = s.arg
      [] s.kind = "class*="  -> Contains(s.arg, el.class)
      [] s.kind = "has-text" -> el.tag = s.tag
                                /\ Contains(Lower(s.arg), Lower(el.text))

\* page.query_selector_all(selector): the matching elements, document order
query_selector_all(dom, selector) ==
    LET Matches(el) == \E s \in selector : MatchesSimple(el, s)
    IN  SelectSeq(dom, Matches)

\* the name, in page.raises and in the call history, of the query of the
\* k-th trip selector
TripSelectorText ==
    << ".trip-card", ".journey-card", ".train-result", "[class*='trip']",
       "[class*='journey']", ".available-trip" >>
TripQuery(k) == <<"query_selector_all", TripSelectorText[k]>>
BookQuery    == <<"query_selector_all", "button:has-text('Book'), ...">>
PriceQuery   == <<"query_selector_all", "[class*='price'], ...">>
Goto         == <<"goto", "url">>
WaitLoad     == <<"wait_for_timeout", "3000">>
Content      == <<"content", "">>
BodyText     == <<"inner_text", "body">>
TripText     == <<"inner_text", "trips[0]">>

\* lines 109-111: any(indicator.lower() in page_text.lower())
HasIndicator(page_text) ==
    \E i \in 1..Len(no_availability_indicators) :
        Contains(Lower(no_availability_indicators[i]), Lower(page_text))

\* lines 129-144: the dict built from the elements of the matching selector
TripInfo(trips, url, route_name, date) ==
    LET trip_info == [date |-> date, route |-> route_name, url |-> url,
                      count |-> Len(trips)]
    IN  IF trips[1].inner_text_raises
        THEN trip_info
        ELSE [date |-> date, route |-> route_name, url |-> url,
              count |-> Len(trips), details |-> Prefix(trips[1].text, 500)]

\* lines 148-170: the Book buttons, then the price elements; a raise here
\* reaches the handler of line 172
BookAndPrice(page, url, route_name, date, calls) ==
    IF BookQuery \in page.raises
    THEN [result |-> None, calls |-> Append(calls, BookQuery), caught |-> TRUE]
    ELSE LET book_buttons == query_selector_all(page.dom, book_selector)
             calls2 == Append(calls, BookQuery)
         IN  IF Len(book_buttons) > 0
             THEN [result |-> [date |-> date, route |-> route_name,
                               url |-> url, count |-> Len(book_buttons),
                               details |-> D_book],
                   calls |-> calls2, caught |-> FALSE]
             ELSE IF PriceQuery \in page.raises
             THEN [result |-> None, calls |-> Append(calls2, PriceQuery),
                   caught |-> TRUE]
             ELSE LET price_elements ==
                          query_selector_all(page.dom, price_selector)
                      calls3 == Append(calls2, PriceQuery)
                  IN  IF Len(price_elements) > 0
                      THEN [result |-> [date |-> date, route |-> route_name,
                                        url |-> url,
                                        count |-> Len(price_elements),
                                        details |-> D_price],
                            calls |-> calls3, caught |-> FALSE]
                      ELSE [result |-> None, calls |-> calls3,
                            caught |-> FALSE]

RECURSIVE SelectorLoopAbort(_, _, _, _, _, _)
\* Mutant: a selector whose query raises ends the check (except: return
\* None) instead of moving on to the next selector.
SelectorLoopAbort(page, url, route_name, date, k, calls) ==
    IF k > Len(trip_selectors)
    THEN BookAndPrice(page, url, route_name, date, calls)
    ELSE LET calls2 == Append(calls, TripQuery(k))
         IN  IF TripQuery(k) \in page.raises
             THEN [result |-> None, calls |-> calls2, caught |-> TRUE]
             ELSE LET trips == query_selector_all(page.dom, trip_selectors[k])
                  IN  IF Len(trips) > 0
                      THEN [result |-> TripInfo(trips, url, route_name, date),
                            calls |-> Append(calls2, TripText),
                            caught |-> FALSE]
                      ELSE SelectorLoopAbort(page, url, route_name, date,
                                             k + 1, calls2)

RECURSIVE SelectorLoop(_, _, _, _, _, _)
\* lines 124-146: the for loop over trip_selectors, from its k-th selector
SelectorLoop(page, url, route_name, date, k, calls) ==
    IF k > Len(trip_selectors)
    THEN BookAndPrice(page, url, route_name, date, calls)
    ELSE LET calls2 == Append(calls, TripQuery(k))
         IN  IF TripQuery(k) \in page.raises
             THEN \* except: continue
                  SelectorLoop(page, url, route_name, date, k + 1, calls2)
             ELSE LET trips == query_selector_all(page.dom, trip_selectors[k])
                  IN  IF Len(trips) > 0
                      THEN [result |-> TripInfo(trips, url, route_name, date),
                            calls |-> Append(calls2, TripText),
                            caught |-> FALSE]
                      ELSE SelectorLoop(page, url, route_name, date, k + 1,
                                        calls2)

\* lines 89-96: goto, the settle wait, content() and inner_text("body")
Loading == <<Goto, WaitLoad, Content, BodyText>>

\* how many of the calls of ops are made before one raises (that one
\* included), or 0 when none raises
FirstRaising(page, ops) ==
    IF \E i \in 1..Len(ops) : ops[i] \in page.raises
    THEN CHOOSE i \in 1..Len(ops) :
             ops[i] \in page.raises
             /\ \A j \in 1..(i - 1) : ops[j] \notin page.raises
    ELSE 0

\* Mutant: a raise while loading the page is swallowed where it happens
\* and the selectors run on the page left in place.
CheckRunIgnoresLoadFailure(page, url, route_name, date) ==
    IF FirstRaising(page, Loading) = 0 /\ HasIndicator(page.body)
    THEN [result |-> None, calls |-> Loading, caught |-> FALSE]
    ELSE SelectorLoop(page, url, route_name, date, 1, Loading)

\* One call of check_availability: what it returns, the page operations it
\* calls, in order, and whether the handler of line 172 ran.
CheckRun(page, url, route_name, date) ==
    LET n == FirstRaising(page, Loading)
    IN  IF n > 0
        THEN [result |-> None, calls |-> SubSeq(Loading, 1, n),
              caught |-> TRUE]
        ELSE IF HasIndicator(page.body)
        THEN [result |-> None, calls |-> Loading, caught |-> FALSE]
        ELSE SelectorLoop(page, url, route_name, date, 1, Loading)

check_availability(page, url, route_name, date) ==
    CheckRun(page, url, route_name, date).result

-----------------------------------------------------------------------------
(* CONFIG, and the route name and URL main() builds for a window and date  *)

CONFIG ==
    [outbound |-> [from_station |-> S_RIY, to_station |-> S_QUR,
                   from_name |-> S_Riyadh, to_name |-> S_Qurayyat,
                   start_date |-> D_2025_03_03, end_date |-> D_2025_03_20,
                   direction |-> S_N],
     return   |-> [from_station |-> S_QUR, to_station |-> S_RIY,
                   from_name |-> S_Qurayyat, to_name |-> S_Riyadh,
                   start_date |-> D_2025_03_23, end_date |-> D_2025_04_02,
                   direction |-> S_N]]

\* f"{from_name} → {to_name}"
RouteName(route) == route.from_name \o S_arrow \o route.to_name

\* Mutant: the direction argument is left out of the call, so the default
\* of the parameter ("N") is used.
RouteUrlDefaultDirection(route, date) ==
    build_search_url(route.from_station, route.to_station, date, S_N)

\* lines 331-336 and 364-369
RouteUrl(route, date) ==
    build_search_url(route.from_station, route.to_station, date,
                     route.direction)

-----------------------------------------------------------------------------
(* Variables a specification does not use keep these values.               *)

NoRun == [result |-> None, calls |-> <<>>, caught |-> FALSE]

MainIdle ==
    /\ config = CONFIG
    /\ env = [credentials |-> FALSE]
    /\ pc = "idle"
    /\ window = "outbound"
    /\ dates = <<>>
    /\ idx = 0
    /\ available_trips = <<>>
    /\ browser = "none"
    /\ events = <<>>
    /\ probes = <<>>
    /\ send_calls = <<>>
    /\ smtp = <<>>
    /\ delivered = <<>>
    /\ printed = <<>>

CheckIdle ==
    /\ ca_page = [body |-> <<>>, dom |-> <<>>, raises |-> {}]
    /\ ca_result = NoRun
    /\ ca_done = FALSE

DatesIdle ==
    /\ gd_window = [start_date |-> D_2025_03_03, end_date |-> D_2025_03_03,
                    weekday_filter |-> {}]
    /\ gd_result = <<>>
    /\ gd_done = FALSE

UrlIdle ==
    /\ bu_args = <<>>
    /\ bu_urls = <<>>
    /\ bu_done = FALSE

-----------------------------------------------------------------------------
(* SpecCheck: one call of check_availability on a page drawn from a        *)
(* bounded set of rendered pages.                                          *)

MaxDom == 2
MaxRaises == 1

\* an element text longer than the 500 characters line 140 keeps
LongText == [i \in 1..(500 + 1) |-> 120]

Element(tag, class, text, bad) ==
    [tag |-> tag, class |-> class, text |-> text, inner_text_raises |-> bad]

ElementKinds ==
    { Element("div", C_trip_card, T_train76, FALSE),
      Element("div", C_trip_card, T_train76, TRUE),
      Element("div", C_journey_card, LongText, FALSE),
      Element("div", C_train_result, T_train76, FALSE),
      Element("div", C_journey_info, T_info, FALSE),
      Element("div", C_available_trip, T_train76, FALSE),
      Element("button", C_btn, T_BOOK_NOW, FALSE),
      Element("span", C_sar_price, T_fare, FALSE) }

Bodies ==
    { B_plain, B_No_Trips_Available, B_no_trips_found, B_SOLD_OUT, B_ar,
      B_results, B_empty }

RaiseOps ==
    {Goto, BodyText, BookQuery, PriceQuery}
        \cup {TripQuery(k) : k \in 1..Len(trip_selectors)}

Doms == UNION {[1..n -> ElementKinds] : n \in 0..MaxDom}

RaiseSets == {r \in SUBSET RaiseOps : Cardinality(r) <= MaxRaises}

Pages == [body : Bodies, dom : Doms, raises : RaiseSets]

\* the arguments main() passes for the first outbound date of CONFIG
ca_route == CONFIG.outbound
ca_date == CONFIG.outbound.start_date
ca_url == RouteUrl(ca_route, ca_date)

InitCheck ==
    /\ MainIdle /\ DatesIdle /\ UrlIdle
    /\ ca_page \in Pages
    /\ ca_result = NoRun
    /\ ca_done = FALSE

CallCheckAvailability ==
    /\ ~ca_done
    /\ ca_result' = CheckRun(ca_page, ca_url, RouteName(ca_route), ca_date)
    /\ ca_done' = TRUE
    /\ UNCHANGED <<ca_page, mainVars, datesVars, urlVars>>

NextCheck == CallCheckAvailability

SpecCheck == InitCheck /\ [][NextCheck]_vars

-----------------------------------------------------------------------------
(* SpecDates: one call of generate_dates on a scan window drawn from a     *)
(* bounded set of windows.                                                 *)

\* the longest window drawn, in days from start to end
MaxSpan == 40

DateInputs ==
    { D_2025_03_03, D_2025_03_20, D_2025_03_23, D_2025_04_02, D_2025_03_30,
      D_2025_04_01, D_2025_4_1, D_2024_02_28, D_2024_03_01, D_2025_02_27,
      D_2025_03_01, D_2025_12_30, D_2026_01_02, D_2026_02_03, D_2026_02_05 }

\* The weekday filter of the specification's ScanWindow (ordinals, Monday =
\* 0).  CONFIG has no such key and generate_dates no such parameter.
WeekdayFilters == { {}, {1}, {5, 6} }

\* date.toordinal(): days since 0001-01-01, that day being 1
DaysBeforeMonth ==
    <<0, 31, 59, 90, 120, 151, 181, 212, 243, 273, 304, 334>>
ToOrdinal(d) ==
    LET y == d.year - 1
    IN  365 * y + (y \div 4) - (y \div 100) + (y \div 400)
        + DaysBeforeMonth[d.month]
        + (IF d.month > 2 /\ IsLeap(d.year) THEN 1 ELSE 0)
        + d.day

\* date.weekday() of the day with ordinal n: Monday = 0
WeekdayOf(n) == (n + 6) % 7

InitDates ==
    /\ MainIdle /\ CheckIdle /\ UrlIdle
    /\ gd_window \in [start_date : DateInputs, end_date : DateInputs,
                      weekday_filter : WeekdayFilters]
    /\ ToOrdinal(strptime(gd_window.end_date))
         - ToOrdinal(strptime(gd_window.start_date)) <= MaxSpan
    /\ gd_result = <<>>
    /\ gd_done = FALSE

\* lines 325-328 and 358-361: the only call shape of the program
CallGenerateDates ==
    /\ ~gd_done
    /\ gd_result' = generate_dates(gd_window.start_date, gd_window.end_date)
    /\ gd_done' = TRUE
    /\ UNCHANGED <<gd_window, mainVars, checkVars, urlVars>>

NextDates == CallGenerateDates

SpecDates == InitDates /\ [][NextDates]_vars

-----------------------------------------------------------------------------
(* SpecUrl: build_search_url on two (route, date) inputs.                  *)

StationInputs == {S_RIY, S_QUR, <<>>, X_amp_arrival}
FromNameInputs == {S_Riyadh, S_Riyadh_Central}
ToNameInputs == {S_Qurayyat, S_Al_Qurayyat}
DirectionInputs == {S_N, S_S}
UrlDateInputs == {D_2025_03_03, D_2025_04_01}

RouteDateInputs ==
    [route : [from_station : StationInputs, to_station : StationInputs,
              from_name : FromNameInputs, to_name : ToNameInputs,
              direction : DirectionInputs],
     date : UrlDateInputs]

InitUrl ==
    /\ MainIdle /\ CheckIdle /\ DatesIdle
    /\ bu_args \in RouteDateInputs \X RouteDateInputs
    /\ bu_urls = <<>>
    /\ bu_done = FALSE

CallBuildSearchUrl ==
    /\ ~bu_done
    /\ bu_urls' = <<RouteUrl(bu_args[1].route, bu_args[1].date),
                    RouteUrl(bu_args[2].route, bu_args[2].date)>>
    /\ bu_done' = TRUE
    /\ UNCHANGED <<bu_args, mainVars, checkVars, datesVars>>

NextUrl == CallBuildSearchUrl

SpecUrl == InitUrl /\ [][NextUrl]_vars

-----------------------------------------------------------------------------
(* Spec: main().                                                           *)
(*                                                                         *)
(* pc follows main(): "start" (lines 304-316), "generate" (325, 358),      *)
(* "loop" (330, 363), "pace" (352, 384), "close" (386), "summary" (393),   *)
(* "send_email" (208-282), "fallback" (283-293), "done" (399); "aborted"   *)
(* is main() left by an exception.  events records the page.goto calls,    *)
(* the pacing waits that returned and the exceptions that left main().     *)

\* the longest window drawn, in days
MaxWindowDays == 2

\* the end dates a window starting on start is drawn with: those that give
\* at most MaxWindowDays days; an end before the start is among them
WindowEnds == {D_2025_03_30, D_2025_03_31, D_2025_04_01, D_2025_04_02,
               D_2025_04_03}
WindowRanges(start) ==
    {r \in {start} \X WindowEnds :
        /\ ToOrdinal(strptime(r[2])) - ToOrdinal(strptime(r[1]))
             < MaxWindowDays
        /\ ToOrdinal(strptime(r[1])) - ToOrdinal(strptime(r[2])) <= 1}

\* CONFIG with the date ranges drawn from WindowRanges: the outbound window
\* starts on 2025-03-31, the return window on 2025-04-01
Configs ==
    {[outbound |-> [CONFIG.outbound EXCEPT !.start_date = o[1],
                                           !.end_date = o[2]],
      return   |-> [CONFIG.return EXCEPT !.start_date = r[1],
                                         !.end_date = r[2]]] :
        o \in WindowRanges(D_2025_03_31), r \in WindowRanges(D_2025_04_01)}

\* the pages a probe may find: trips shown; a "no trips" text over the same
\* elements; the trips page of the previous date left in place by a goto
\* that timed out
TripsPage == [body |-> B_plain,
              dom |-> <<Element("div", C_trip_card, T_train76, FALSE)>>,
              raises |-> {}]
ScanPages ==
    { TripsPage,
      [TripsPage EXCEPT !.body = B_No_Trips_Available],
      [TripsPage EXCEPT !.raises = {Goto}] }

\* the outcomes of one SMTP attempt (lines 279-281, 287-290): the step
\* that raises, or none.  "quit" is the QUIT that leaving the with block
\* sends after sendmail returned: smtplib raises SMTPResponseException
\* when the reply is not 221.
SmtpOutcomes == {"connect", "login", "sendmail", "quit", "ok"}

\* the server accepted the message: sendmail returned
Accepted(outcome) == outcome \in {"quit", "ok"}

\* the message send_email builds from its argument (lines 226-274)
Message(trips) ==
    [count |-> Len(trips),
     rows |-> [i \in 1..Len(trips) |->
                  <<trips[i].route, trips[i].date, trips[i].url>>]]

Init ==
    /\ CheckIdle /\ DatesIdle /\ UrlIdle
    /\ config \in Configs
    /\ env \in [credentials : BOOLEAN]
    /\ pc = "start"
    /\ window = "outbound"
    /\ dates = <<>>
    /\ idx = 0
    /\ available_trips = <<>>
    /\ browser = "none"
    /\ events = <<>>
    /\ probes = <<>>
    /\ send_calls = <<>>
    /\ smtp = <<>>
    /\ delivered = <<>>
    /\ printed = <<>>

otherVars == <<checkVars, datesVars, urlVars>>

\* lines 304-316: the browser, the context and the page are created
Launch ==
    /\ pc = "start"
    /\ browser' = "open"
    /\ pc' = "generate"
    /\ UNCHANGED <<config, env, window, dates, idx, available_trips, events,
                   probes, send_calls, smtp, delivered, printed, otherVars>>

\* lines 304-316: one of them raises, and the exception leaves main()
LaunchRaises ==
    /\ pc = "start"
    /\ pc' = "aborted"
    /\ events' = Append(events, [op |-> "raise", at |-> "launch"])
    /\ UNCHANGED <<config, env, window, dates, idx, available_trips, browser,
                   probes, send_calls, smtp, delivered, printed,
                   otherVars>>

\* lines 325-328 and 358-361
GenerateWindow ==
    /\ pc = "generate"
    /\ dates' = generate_dates(config[window].start_date,
                               config[window].end_date)
    /\ idx' = 1
    /\ pc' = "loop"
    /\ UNCHANGED <<config, env, window, available_trips, browser, events,
                   probes, send_calls, smtp, delivered, printed, otherVars>>

\* Mutant: the return loop, copied from the outbound loop, still reads
\* CONFIG['outbound'].
WindowRouteOutbound(w) == config["outbound"]

\* the CONFIG entry the loop of window w reads (lines 331-342, 364-375)
WindowRoute(w) == config[w]

\* `if result:` (lines 345, 378): None is false, a non-empty dict is true
Truthy(result) == result # None

\* the page.goto calls among the calls of a run, as events
GotoEvents(run, url) ==
    [i \in 1..Cardinality({j \in 1..Len(run.calls) : run.calls[j] = Goto})
        |-> [op |-> "goto", url |-> url]]

\* Mutant: a date that is not available skips the rest of the loop body
\* (continue), the pacing wait included.
ProbeDateContinue(page) ==
    LET date == dates[idx]
        url == RouteUrl(WindowRoute(window), date)
        run == CheckRun(page, url, RouteName(WindowRoute(window)), date)
    IN  /\ pc = "loop"
        /\ idx <= Len(dates)
        /\ available_trips' = IF Truthy(run.result)
                              THEN Append(available_trips, run.result)
                              ELSE available_trips
        /\ events' = events \o GotoEvents(run, url)
        /\ probes' = Append(probes, [window |-> window, date |-> date,
                                     url |-> url, page |-> page, run |-> run])
        /\ IF Truthy(run.result)
           THEN pc' = "pace" /\ idx' = idx
           ELSE pc' = "loop" /\ idx' = idx + 1
        /\ UNCHANGED <<config, env, window, dates, browser, send_calls,
                       smtp, delivered, printed, otherVars>>

\* lines 330-349 and 363-382: one date of the running loop is probed on the
\* page the site serves
ProbeDate(page) ==
    LET date == dates[idx]
        url == RouteUrl(WindowRoute(window), date)
        run == CheckRun(page, url, RouteName(WindowRoute(window)), date)
    IN  /\ pc = "loop"
        /\ idx <= Len(dates)
        /\ available_trips' = IF Truthy(run.result)
                              THEN Append(available_trips, run.result)
                              ELSE available_trips
        /\ events' = events \o GotoEvents(run, url)
        /\ probes' = Append(probes, [window |-> window, date |-> date,
                                     url |-> url, page |-> page, run |-> run])
        /\ pc' = "pace"
        /\ UNCHANGED <<config, env, window, dates, idx, browser, send_calls,
                       smtp, delivered, printed, otherVars>>

Probe == \E page \in ScanPages : ProbeDate(page)

\* lines 352 and 384: page.wait_for_timeout(2000) returns
Pace ==
    /\ pc = "pace"
    /\ events' = Append(events, [op |-> "wait_for_timeout", ms |-> 2000])
    /\ idx' = idx + 1
    /\ pc' = "loop"
    /\ UNCHANGED <<config, env, window, dates, available_trips, browser,
                   probes, send_calls, smtp, delivered, printed, otherVars>>

\* Mutant: the loops run inside try/finally, and the summary is reached
\* also when the wait raises.
PaceRaisesThenSummary ==
    /\ pc = "pace"
    /\ pc' = "summary"
    /\ UNCHANGED <<config, env, window, dates, idx, available_trips, browser,
                   events, probes, send_calls, smtp, delivered, printed,
                   otherVars>>

\* lines 352 and 384: the wait raises (the page or the browser is gone),
\* and the exception leaves main()
PaceRaises ==
    /\ pc = "pace"
    /\ pc' = "aborted"
    /\ events' = Append(events, [op |-> "raise", at |-> "wait_for_timeout"])
    /\ UNCHANGED <<config, env, window, dates, idx, available_trips, browser,
                   probes, send_calls, smtp, delivered, printed,
                   otherVars>>

\* the outbound loop is over: on to the return window
NextWindow ==
    /\ pc = "loop"
    /\ idx > Len(dates)
    /\ window = "outbound"
    /\ window' = "return"
    /\ pc' = "generate"
    /\ UNCHANGED <<config, env, dates, idx, available_trips, browser, events,
                   probes, send_calls, smtp, delivered, printed, otherVars>>

\* the return loop is over
LoopsDone ==
    /\ pc = "loop"
    /\ idx > Len(dates)
    /\ window = "return"
    /\ pc' = "close"
    /\ UNCHANGED <<config, env, window, dates, idx, available_trips, browser,
                   events, probes, send_calls, smtp, delivered, printed,
                   otherVars>>

\* line 386: browser.close() returns
Close ==
    /\ pc = "close"
    /\ browser' = "closed"
    /\ pc' = "summary"
    /\ UNCHANGED <<config, env, window, dates, idx, available_trips, events,
                   probes, send_calls, smtp, delivered, printed, otherVars>>

\* line 386: browser.close() raises, and the exception leaves main()
CloseRaises ==
    /\ pc = "close"
    /\ pc' = "aborted"
    /\ events' = Append(events, [op |-> "raise", at |-> "close"])
    /\ UNCHANGED <<config, env, window, dates, idx, available_trips, browser,
                   probes, send_calls, smtp, delivered, printed,
                   otherVars>>

\* lines 393-395: send_email is called with the list
SummaryFound ==
    /\ pc = "summary"
    /\ available_trips # <<>>
    /\ send_calls' = Append(send_calls, available_trips)
    /\ pc' = "send_email"
    /\ UNCHANGED <<config, env, window, dates, idx, available_trips, browser,
                   events, probes, smtp, delivered, printed, otherVars>>

\* lines 396-397
SummaryNone ==
    /\ pc = "summary"
    /\ available_trips = <<>>
    /\ pc' = "done"
    /\ UNCHANGED <<config, env, window, dates, idx, available_trips, browser,
                   events, probes, send_calls, smtp, delivered, printed,
                   otherVars>>

\* lines 214-223: no credentials, the list is printed
PrintResults ==
    /\ pc = "send_email"
    /\ ~env.credentials
    /\ printed' = Append(printed, send_calls[Len(send_calls)])
    /\ pc' = "done"
    /\ UNCHANGED <<config, env, window, dates, idx, available_trips, browser,
                   events, probes, send_calls, smtp, delivered, otherVars>>

\* lines 277-284: the SMTP_SSL attempt; any exception of the with block,
\* the one of its exit included, leads to the STARTTLS attempt
SmtpSsl(outcome) ==
    /\ pc = "send_email"
    /\ env.credentials
    /\ smtp' = Append(smtp, [via |-> "SMTP_SSL", outcome |-> outcome])
    /\ delivered' = IF Accepted(outcome)
                    THEN Append(delivered,
                                Message(send_calls[Len(send_calls)]))
                    ELSE delivered
    /\ pc' = IF outcome = "ok" THEN "done" ELSE "fallback"
    /\ UNCHANGED <<config, env, window, dates, idx, available_trips, browser,
                   events, probes, send_calls, printed, otherVars>>

\* lines 286-293: the STARTTLS attempt; its exception is printed
SmtpStarttls(outcome) ==
    /\ pc = "fallback"
    /\ smtp' = Append(smtp, [via |-> "STARTTLS", outcome |-> outcome])
    /\ delivered' = IF Accepted(outcome)
                    THEN Append(delivered,
                                Message(send_calls[Len(send_calls)]))
                    ELSE delivered
    /\ pc' = "done"
    /\ UNCHANGED <<config, env, window, dates, idx, available_trips, browser,
                   events, probes, send_calls, printed, otherVars>>

SendSsl == \E outcome \in SmtpOutcomes : SmtpSsl(outcome)
SendStarttls ==
    \E outcome \in SmtpOutcomes \cup {"starttls"} : SmtpStarttls(outcome)

Next ==
    \/ Launch
    \/ LaunchRaises
    \/ GenerateWindow
    \/ Probe
    \/ Pace
    \/ PaceRaises
    \/ NextWindow
    \/ LoopsDone
    \/ Close
    \/ CloseRaises
    \/ SummaryFound
    \/ SummaryNone
    \/ PrintResults
    \/ SendSsl
    \/ SendStarttls

Spec == Init /\ [][Next]_vars

-----------------------------------------------------------------------------
(* Claims about check_availability (SpecCheck).                            *)

\* the page loaded: goto, the settle wait and the two reads returned
PageLoaded == FirstRaising(ca_page, Loading) = 0

\* the phrases the specification names as "no availability" phrases
NoAvailabilityPhrases == {I_no_trips_available, P_no_trips_found, P_sorry}

HasNoAvailabilityPhrase(text) ==
    \E p \in NoAvailabilityPhrases : Contains(Lower(p), Lower(text))

\* C1: whenever the body text of the loaded page contains, in any letter
\* case, one of the "no availability" phrases ("no trips available", "no
\* trips found", "sorry, there are no trips available"), check_availability
\* returns None: the date is unavailable whatever trip cards, Book buttons
\* or price elements the page holds.
C1_NegativePrecedence ==
    (ca_done /\ PageLoaded /\ HasNoAvailabilityPhrase(ca_page.body))
        => ca_result.result = None

\* The positive signals in the order of the code: the six trip selectors,
\* the Book buttons, the price elements.
NSignals == Len(trip_selectors) + 2
IsTripSignal(s) == s <= Len(trip_selectors)
SignalSelector(s) ==
    IF IsTripSignal(s) THEN trip_selectors[s]
    ELSE IF s = Len(trip_selectors) + 1 THEN book_selector ELSE price_selector
SignalQuery(s) ==
    IF IsTripSignal(s) THEN TripQuery(s)
    ELSE IF s = Len(trip_selectors) + 1 THEN BookQuery ELSE PriceQuery

\* the elements of the page the signal matches, in document order
Matching(s) ==
    LET Hit(el) == \E a \in SignalSelector(s) : MatchesSimple(el, a)
    IN  SelectSeq(ca_page.dom, Hit)

SignalFails(s) == SignalQuery(s) \in ca_page.raises
SignalMatches(s) == ~SignalFails(s) /\ Len(Matching(s)) > 0

\* the cascade reaches signal s: nothing before it matched, and no query
\* outside the selector loop raised
Reached(s) ==
    \A t \in 1..(s - 1) :
        /\ ~SignalMatches(t)
        /\ IsTripSignal(t) \/ ~SignalFails(t)

\* the queries made when the cascade stops at signal s
QueriesUpTo(s) == [t \in 1..s |-> SignalQuery(t)]

\* count and details of the record signal s gives
HasDetailsOf(r, s) ==
    /\ r.count = Len(Matching(s))
    /\ IF ~IsTripSignal(s)
       THEN /\ "details" \in DOMAIN r
            /\ r.details = (IF SignalQuery(s) = BookQuery THEN D_book
                            ELSE D_price)
       ELSE IF Matching(s)[1].inner_text_raises
       THEN "details" \notin DOMAIN r
       ELSE /\ "details" \in DOMAIN r
            /\ Len(r.details) <= 500
            /\ r.details = SubSeq(Matching(s)[1].text, 1, Len(r.details))
            /\ Len(r.details) = 500 \/ r.details = Matching(s)[1].text

\* C10: with the page loaded and no indicator in its text, the signals are
\* evaluated in the fixed order and the check stops at the first that
\* matches: the record's count and details are those of that signal and no
\* later signal is queried; a trip selector whose query raises is followed
\* by the query of the next signal; when no signal matches the result is
\* None.
C10_FirstMatchCascade ==
    (ca_done /\ PageLoaded /\ ~HasIndicator(ca_page.body)) =>
        /\ \A s \in 1..NSignals :
              (SignalMatches(s) /\ Reached(s)) =>
                  /\ ca_result.result # None
                  /\ HasDetailsOf(ca_result.result, s)
                  /\ ca_result.result.date = ca_date
                  /\ ca_result.result.url = ca_url
                  /\ ca_result.result.route = RouteName(ca_route)
                  /\ LET q == SelectSeq(ca_result.calls,
                                  LAMBDA c : c[1] = "query_selector_all")
                     IN  q = QueriesUpTo(s)
        /\ \A s \in 1..(NSignals - 1) :
              (IsTripSignal(s) /\ SignalFails(s) /\ Reached(s)) =>
                  \E i \in 1..Len(ca_result.calls) :
                      ca_result.calls[i] = SignalQuery(s + 1)
        /\ (\A s \in 1..NSignals : ~SignalMatches(s))
              => ca_result.result = None

\* C10 witness: the first trip selector's query raised, a later trip
\* selector and the price elements both match, and the record is the trip
\* selector's.
C10_Witness ==
    /\ ca_done /\ PageLoaded /\ ~HasIndicator(ca_page.body)
    /\ SignalFails(1)
    /\ \E s \in 2..Len(trip_selectors) :
          /\ SignalMatches(s) /\ Reached(s)
          /\ SignalMatches(NSignals)
          /\ ca_result.result # None
          /\ HasDetailsOf(ca_result.result, s)
          /\ ~HasDetailsOf(ca_result.result, NSignals)

-----------------------------------------------------------------------------
(* Claims about generate_dates (SpecDates).                                *)

gd_start == ToOrdinal(strptime(gd_window.start_date))
gd_end == ToOrdinal(strptime(gd_window.end_date))

\* s is the "YYYY-MM-DD" form of the day with ordinal n
IsDayString(s, n) ==
    /\ Len(s) = 10
    /\ s[5] = 45 /\ s[8] = 45
    /\ \A i \in {1, 2, 3, 4, 6, 7, 9, 10} : s[i] \in 48..57
    /\ LET d == [year  |-> ParseInt(SubSeq(s, 1, 4)),
                 month |-> ParseInt(SubSeq(s, 6, 7)),
                 day   |-> ParseInt(SubSeq(s, 9, 10))]
       IN  /\ d.month \in 1..12
           /\ d.day \in 1..DaysInMonth(d.year, d.month)
           /\ ToOrdinal(d) = n

\* C2: for start <= end generate_dates returns exactly the days of
\* [start, end], both ends included, each once, in ascending order (end -
\* start + 1 of them); for start > end it returns the empty list.
C2_InclusiveRange ==
    gd_done =>
        IF gd_start <= gd_end
        THEN /\ Len(gd_result) = gd_end - gd_start + 1
             /\ \A i \in 1..Len(gd_result) :
                    IsDayString(gd_result[i], gd_start + i - 1)
        ELSE gd_result = <<>>

\* C2 witness: the window 2024-02-28..2024-03-01, which crosses the 29th of
\* February, was generated as three days.
C2_Witness ==
    /\ gd_done
    /\ gd_window.start_date = D_2024_02_28
    /\ gd_window.end_date = D_2024_03_01
    /\ Len(gd_result) = 3

\* C8: when the window carries a weekday filter the dates generated are
\* exactly the days of [start, end] whose weekday is in the filter, in
\* ascending order; with an empty filter every day of the range is
\* generated.
C8_WeekdayFilter ==
    gd_done =>
        LET wanted == {n \in gd_start..gd_end :
                          gd_window.weekday_filter = {}
                          \/ WeekdayOf(n) \in gd_window.weekday_filter}
        IN  /\ Len(gd_result) = Cardinality(wanted)
            /\ \A i \in 1..Len(gd_result) :
                   \E n \in wanted : IsDayString(gd_result[i], n)
            /\ \A i, j \in 1..Len(gd_result) :
                   i < j => \E m, n \in wanted :
                       /\ m < n
                       /\ IsDayString(gd_result[i], m)
                       /\ IsDayString(gd_result[j], n)

-----------------------------------------------------------------------------
(* Claims about build_search_url (SpecUrl).                                *)

\* the arguments build_search_url receives for an input
UrlKey(a) ==
    <<a.route.from_station, a.route.to_station, a.date, a.route.direction>>

\* no argument holds the "&" that separates the parameters
Plain(a) == \A i \in 1..4 : \A j \in 1..Len(UrlKey(a)[i]) : UrlKey(a)[i][j] # 38

\* C9 as stated: two inputs that differ in the RouteSpec (codes, display
\* names, direction) or in the date give different URLs.
C9_InjectiveInRouteAndDate ==
    bu_done => (bu_args[1] # bu_args[2] => bu_urls[1] # bu_urls[2])

\* C9 amended: over arguments that hold no "&", two inputs that differ in
\* the origin code, the destination code, the direction code or the date
\* give different URLs, and two inputs that agree on these four give the same
\* URL whatever their display names.
C9_InjectiveInCodesAndDate ==
    (bu_done /\ Plain(bu_args[1]) /\ Plain(bu_args[2])) =>
        (UrlKey(bu_args[1]) # UrlKey(bu_args[2])
            <=> bu_urls[1] # bu_urls[2])

\* C9 witness: two inputs that differ only in the direction code, and two
\* URLs that differ.
C9_Witness ==
    /\ bu_done
    /\ Plain(bu_args[1]) /\ Plain(bu_args[2])
    /\ bu_args[1].route.direction # bu_args[2].route.direction
    /\ [bu_args[1] EXCEPT !.route.direction = S_N]
         = [bu_args[2] EXCEPT !.route.direction = S_N]
    /\ bu_urls[1] # bu_urls[2]

-----------------------------------------------------------------------------
(* Claims about main() (Spec).                                             *)

\* the date grid of the run: every (window, date), outbound first, each
\* window's days counted from its start
GridOf(w) ==
    LET a == ToOrdinal(strptime(config[w].start_date))
        b == ToOrdinal(strptime(config[w].end_date))
    IN  [i \in 1..(IF a <= b THEN b - a + 1 ELSE 0) |->
            [window |-> w, day |-> a + i - 1]]
Grid == GridOf("outbound") \o GridOf("return")

\* the probes made so far are the first dates of the grid, in grid order
ProbesFollowGrid ==
    /\ Len(probes) <= Len(Grid)
    /\ \A i \in 1..Len(probes) :
          /\ probes[i].window = Grid[i].window
          /\ IsDayString(probes[i].date, Grid[i].day)

\* the whole grid was probed
GridScanned == ProbesFollowGrid /\ Len(probes) = Len(Grid)

\* the fetch of probe p failed: goto or a read of the page raised
FetchFailed(p) == FirstRaising(p.page, Loading) > 0

GotoCount(url) ==
    Cardinality({i \in 1..Len(events) :
                    events[i].op = "goto" /\ events[i].url = url})

\* C3: a date whose fetch failed is caught inside check_availability and
\* treated as unavailable: the call returns None through its handler, no
\* record is appended for the date, its URL is fetched once and no more,
\* main() goes on to the pacing wait of the same iteration, and a run that
\* reaches its end has probed every date of both windows, the ones after
\* the failure included.
C3_FetchFailureIsolation ==
    /\ ProbesFollowGrid
    /\ \A i \in 1..Len(probes) :
          FetchFailed(probes[i]) =>
              /\ probes[i].run.result = None
              /\ probes[i].run.caught
              /\ \A k \in 1..Len(available_trips) :
                    ~(/\ available_trips[k].date = probes[i].date
                      /\ available_trips[k].route
                           = RouteName(config[probes[i].window]))
              /\ GotoCount(probes[i].url) = 1
    /\ (/\ Len(probes) > 0
        /\ FetchFailed(probes[Len(probes)])
        /\ Len(events) > 0
        /\ events[Len(events)].op = "goto") => pc = "pace"
    /\ pc \in {"close", "summary", "send_email", "fallback", "done"}
          => GridScanned

\* C3 witness: the run is over, the fetch of the first date failed, and
\* the last date of the return window was found available after it.
C3_Witness ==
    /\ pc = "done"
    /\ Len(probes) >= 3
    /\ FetchFailed(probes[1])
    /\ probes[1].window = "outbound"
    /\ probes[Len(probes)].window = "return"
    /\ probes[Len(probes)].run.result # None
    /\ Len(available_trips) >= 1

\* C4: between any two consecutive page.goto calls of a run a pacing wait
\* (wait_for_timeout(2000)) was executed, also across the two windows and
\* also when the earlier call failed.
C4_PacingBetweenFetches ==
    \A i, j \in 1..Len(events) :
        (i < j /\ events[i].op = "goto" /\ events[j].op = "goto") =>
            \E k \in (i + 1)..(j - 1) :
                events[k].op = "wait_for_timeout" /\ events[k].ms = 2000

\* C4 witness: the fetch of the last outbound date failed, and the first
\* return date was fetched after the pacing wait.
C4_Witness ==
    \E i \in 1..(Len(probes) - 1) :
        /\ probes[i].window = "outbound"
        /\ probes[i + 1].window = "return"
        /\ FetchFailed(probes[i])
        /\ \E k \in 1..(Len(events) - 2) :
              /\ events[k].op = "goto"
              /\ events[k].url = probes[i].url
              /\ events[k + 1].op = "wait_for_timeout"
              /\ events[k + 2].op = "goto"
              /\ events[k + 2].url = probes[i + 1].url

\* the probes classified available, in probe order
AvailableProbes == SelectSeq(probes, LAMBDA p : p.run.result # None)

\* C5: the list handed to send_email holds exactly one record for each
\* date of the grid classified available and none for any other date, in
\* window order and, within a window, in ascending date order; each record
\* carries the route name, the date and the URL of its own route and date.
C5_ScanResultRecords ==
    /\ Len(available_trips) = Len(AvailableProbes)
    /\ \A i \in 1..Len(available_trips) :
          LET r == available_trips[i]
              p == AvailableProbes[i]
              route == config[p.window]
          IN  /\ r.date = p.date
              /\ r.route = route.from_name \o S_arrow \o route.to_name
              /\ r.url = build_search_url(route.from_station,
                                          route.to_station, p.date,
                                          route.direction)
    /\ \A i, j \in 1..Len(AvailableProbes) :
          i < j =>
              \/ /\ AvailableProbes[i].window = "outbound"
                 /\ AvailableProbes[j].window = "return"
              \/ /\ AvailableProbes[i].window = AvailableProbes[j].window
                 /\ ToOrdinal(strptime(AvailableProbes[i].date))
                      < ToOrdinal(strptime(AvailableProbes[j].date))
    /\ \A k \in 1..Len(send_calls) :
          /\ send_calls[k] = available_trips
          /\ GridScanned

\* C5 witness: send_email received a list with a record of each window,
\* while another date of the grid was not available.
C5_Witness ==
    /\ Len(send_calls) = 1
    /\ Len(send_calls[1]) >= 2
    /\ send_calls[1][1].route = RouteName(config["outbound"])
    /\ send_calls[1][Len(send_calls[1])].route = RouteName(config["return"])
    /\ Len(probes) > Len(send_calls[1])

\* C6: a run ended by an exception (browser launch, pacing wait, browser
\* close) never calls send_email and delivers or prints nothing, whatever
\* was collected; send_email runs only after both windows were scanned to
\* the end and the browser was closed.
C6_NoPartialNotification ==
    /\ pc = "aborted" =>
          send_calls = <<>> /\ smtp = <<>> /\ delivered = <<>>
          /\ printed = <<>>
    /\ (send_calls # <<>> \/ smtp # <<>> \/ delivered # <<>>
            \/ printed # <<>>)
          => (GridScanned /\ browser = "closed")

\* C6 witness: the pacing wait raised after a record was collected.
C6_Witness ==
    /\ pc = "aborted"
    /\ available_trips # <<>>
    /\ Len(probes) < Len(Grid)

\* C7: a completed run that found an available date calls send_email once
\* with the whole list, and the message is delivered at most once over
\* every outcome of the two SMTP attempts; a run that found none sends
\* nothing.
C7_SingleNotification ==
    /\ Len(send_calls) <= 1
    /\ Len(delivered) <= 1
    /\ pc = "done" =>
          IF available_trips # <<>>
          THEN send_calls = <<available_trips>>
          ELSE send_calls = <<>> /\ delivered = <<>> /\ printed = <<>>

=============================================================================
